---- MODULE Spec2Model ----
(***************************************************************************)
(* Model of the PDF extraction backend: the LLM service with its two       *)
(* provider adapters (Mistral first, Groq as fallback), in its three       *)
(* versions (backend/main.py, backend/app/a.py and                         *)
(* backend/app/services/llm_service.py), and the /api/extract request      *)
(* handler that runs one process_file task per uploaded file.              *)
(***************************************************************************)
EXTENDS Integers, Sequences, FiniteSets, TLC

\* ------------------------------------------------------------------------
\* Bounds and program constants
\* ------------------------------------------------------------------------

\* number of files of one request
MaxDocs == 2

\* LLMService.max_retries (main.py, a.py); default of max_retries (llm_service.py)
max_retries == 3

Docs == 1..MaxDocs

Impls == {"main", "a", "svc"}

Providers == {"mistral", "groq"}

\* ------------------------------------------------------------------------
\* Completions: strings over a small alphabet.  A completion is a sequence
\* of characters; a value token ("OBJ_FULL", ...) stands for a whole JSON
\* text of more than seven characters, so that cutting characters off it
\* leaves text that is not JSON (written "x").
\* ------------------------------------------------------------------------

ValueTokens == {"OBJ_FULL", "OBJ_PART", "OBJ_NULL", "ARR"}

\* a JSON text nested deeper than the recursion limit of the interpreter, and
\* so long that cutting a few characters off it leaves it that deep
Deep == "DEEP"

\* the backquote character
BQ == "BQ"

\* the code fence: three backquotes
Fence == <<BQ, BQ, BQ>>

\* the json code fence: three backquotes and the word json
JsonFence == <<BQ, BQ, BQ, "j", "s", "o", "n">>

IsWs(c) == c \in {" ", "\n"}

RECURSIVE LStrip(_)
LStrip(s) == IF s # <<>> /\ IsWs(Head(s)) THEN LStrip(Tail(s)) ELSE s

RECURSIVE RStrip(_)
RStrip(s) == IF s # <<>> /\ IsWs(s[Len(s)]) THEN RStrip(SubSeq(s, 1, Len(s) - 1)) ELSE s

\* str.strip()
Strip(s) == RStrip(LStrip(s))

\* str.startswith(p)
StartsWith(s, p) == Len(s) >= Len(p) /\ SubSeq(s, 1, Len(p)) = p

\* str.endswith(p)
EndsWith(s, p) == Len(s) >= Len(p) /\ SubSeq(s, Len(s) - Len(p) + 1, Len(s)) = p

\* content[k:]
RECURSIVE DropChars(_, _)
DropChars(s, k) ==
    IF k = 0 \/ s = <<>> THEN s
    ELSE IF Head(s) = Deep THEN s
    ELSE IF Head(s) \in ValueTokens THEN <<"x">> \o Tail(s)
    ELSE DropChars(Tail(s), k - 1)

\* content[:-k]
RECURSIVE DropLastChars(_, _)
DropLastChars(s, k) ==
    IF k = 0 \/ s = <<>> THEN s
    ELSE IF s[Len(s)] = Deep THEN s
    ELSE IF s[Len(s)] \in ValueTokens THEN SubSeq(s, 1, Len(s) - 1) \o <<"x">>
    ELSE DropLastChars(SubSeq(s, 1, Len(s) - 1), k - 1)

\* main.py: strip(), then three re.sub calls: a leading json fence with the
\* whitespace after it, a leading fence with the whitespace after it, and a
\* trailing fence with the whitespace before it
CleanMain(content) ==
    LET c0 == Strip(content)
        c1 == IF StartsWith(c0, JsonFence) THEN LStrip(DropChars(c0, 7)) ELSE c0
        c2 == IF StartsWith(c1, Fence) THEN LStrip(DropChars(c1, 3)) ELSE c1
        c3 == IF EndsWith(c2, Fence) THEN RStrip(DropLastChars(c2, 3)) ELSE c2
    IN  c3

\* a.py: strip(), startswith/endswith slicing, strip()
CleanA(content) ==
    LET c0 == Strip(content)
        c1 == IF StartsWith(c0, JsonFence) THEN DropChars(c0, 7) ELSE c0
        c2 == IF StartsWith(c1, Fence) THEN DropChars(c1, 3) ELSE c1
        c3 == IF EndsWith(c2, Fence) THEN DropLastChars(c2, 3) ELSE c2
    IN  Strip(c3)

\* llm_service.py: the prefixes tested are "json" and "" (every string starts
\* with ""), so the first three characters are always cut
CleanSvc(content) ==
    LET c0 == Strip(content)
        c1 == IF StartsWith(c0, <<"j", "s", "o", "n">>) THEN DropChars(c0, 7) ELSE c0
        c2 == IF StartsWith(c1, <<>>) THEN DropChars(c1, 3) ELSE c1
        c3 == IF EndsWith(c2, Fence) THEN DropLastChars(c2, 3) ELSE c2
    IN  Strip(c3)

Clean(i, content) ==
    IF i = "main" THEN CleanMain(content)
    ELSE IF i = "a" THEN CleanA(content)
    ELSE CleanSvc(content)

\* json.loads: surrounding whitespace is allowed; the text must be one JSON
\* value.  "{" whitespace "}" is the empty object.  Without ok, v tells the
\* exception: RecursionError for a text nested too deep, else
\* JSONDecodeError ("none").
JsonLoads(s) ==
    LET t == Strip(s)
    IN  IF Len(t) = 1 /\ t[1] \in ValueTokens THEN [ok |-> TRUE, v |-> t[1]]
        ELSE IF t # <<>> /\ t[1] = Deep THEN [ok |-> FALSE, v |-> "RecursionError"]
        ELSE IF Len(t) >= 2 /\ t[1] = "{" /\ t[Len(t)] = "}"
                /\ \A k \in 2..(Len(t) - 1) : IsWs(t[k])
             THEN [ok |-> TRUE, v |-> "OBJ_EMPTY"]
        ELSE [ok |-> FALSE, v |-> "none"]

\* ------------------------------------------------------------------------
\* Templates and extracted data
\* ------------------------------------------------------------------------

\* main.py TEMPLATES; a.py loads extraction_template_1; llm_service.py loads
\* whatever the templates directory holds (modelled with one template)
TemplateIds(i) ==
    IF i = "main" THEN {"template_1", "template_2", "template_3"}
    ELSE IF i = "a" THEN {"extraction_template_1"}
    ELSE {"template_1"}

\* sections whose value is a mapping of fields
MapSections(tid) ==
    IF tid = "template_1"
    THEN {"portfolio_summary", "statement_of_operations", "statement_of_cashflows", "pcap_statement"}
    ELSE IF tid = "template_2" THEN {"invoice_summary", "payment_details"}
    ELSE IF tid = "template_3" THEN {"document_summary", "metadata"}
    ELSE {"fund_overview", "financial_summary", "performance_metrics", "metadata"}

\* sections whose value is a list of records
ListSections(tid) ==
    IF tid = "template_1"
    THEN {"schedule_of_investments", "portfolio_company_profile", "portfolio_company_financials", "footnotes"}
    ELSE IF tid = "template_2" THEN {"line_items"}
    ELSE IF tid = "template_3" THEN {"extracted_fields"}
    ELSE {"portfolio_companies"}

\* the sections a template declares
Sections(tid) == MapSections(tid) \cup ListSections(tid)

\* the section that the completions OBJ_PART and OBJ_NULL leave out / null
OmittedSection(tid) ==
    IF tid = "template_1" THEN "portfolio_summary"
    ELSE IF tid = "template_2" THEN "invoice_summary"
    ELSE IF tid = "template_3" THEN "document_summary"
    ELSE "fund_overview"

\* JSON values of the extracted data
MapV == [t |-> "map", s |-> "", n |-> 0]

ListV == [t |-> "list", s |-> "", n |-> 0]

NullV == [t |-> "null", s |-> "", n |-> 0]

StrV(str) == [t |-> "str", s |-> str, n |-> 0]

IntV(k) == [t |-> "int", s |-> "", n |-> k]

EmptyDict == [k \in {} |-> NullV]

\* the Python value json.loads gives for a value token
PyValue(tok, tid) ==
    LET full == [k \in Sections(tid) |-> IF k \in MapSections(tid) THEN MapV ELSE ListV]
    IN  IF tok = "OBJ_FULL" THEN [py |-> "dict", d |-> full]
        ELSE IF tok = "OBJ_PART"
             THEN [py |-> "dict", d |-> [k \in Sections(tid) \ {OmittedSection(tid)} |-> full[k]]]
        ELSE IF tok = "OBJ_NULL"
             THEN [py |-> "dict", d |-> [full EXCEPT ![OmittedSection(tid)] = NullV]]
        ELSE IF tok = "OBJ_EMPTY" THEN [py |-> "dict", d |-> EmptyDict]
        ELSE [py |-> "list", d |-> EmptyDict]

\* data[key] = value
SetKey(d, key, value) == [k \in DOMAIN d \cup {key} |-> IF k = key THEN value ELSE d[k]]

MistralModel == "mistral-large-latest"

GroqModel == "llama-3.3-70b-versatile"

ModelName(p) == IF p = "mistral" THEN MistralModel ELSE GroqModel

\* both adapters tagging their result with the model of Mistral
TaggedAsMistral(i, d, p, tid, r) ==
    IF i = "main"
    THEN SetKey(SetKey(d, "_llm_model", StrV(MistralModel)), "_template", StrV(tid))
    ELSE SetKey(SetKey(d, "_llm_model", StrV(MistralModel)), "_retry_count", IntV(r))

\* the keys the adapters of main.py and a.py add to the parsed object
Tagged(i, d, p, tid, r) ==
    IF i = "main"
    THEN SetKey(SetKey(d, "_llm_model", StrV(ModelName(p))), "_template", StrV(tid))
    ELSE SetKey(SetKey(d, "_llm_model", StrV(ModelName(p))), "_retry_count", IntV(r))

\* llm_service.py _validate_and_clean: every schema field missing from the
\* data is set to None
ValidateAndClean(d, tid) ==
    [k \in DOMAIN d \cup Sections(tid) |-> IF k \in DOMAIN d THEN d[k] ELSE NullV]

\* the completions a provider may return
Completions ==
    { <<"OBJ_FULL">>, <<"OBJ_PART">>, <<"OBJ_NULL">>, <<"ARR">>, <<"{", "}">>,
      JsonFence \o <<"\n", "OBJ_FULL", "\n">> \o Fence,
      Fence \o <<"\n", "OBJ_FULL", "\n">> \o Fence,
      <<"x">>, <<>>, <<"x", " ", "OBJ_FULL">>,
      Fence \o Fence \o <<"\n", "OBJ_FULL", "\n">> \o Fence,
      <<Deep>> }

\* what one provider call does: raise a transient error (rate limit, timeout,
\* connection failure), raise a permanent error (auth failure, invalid
\* request), or return a completion
Outcomes ==
    { [kind |-> "transient", content |-> <<>>], [kind |-> "permanent", content |-> <<>>] }
    \cup { [kind |-> "content", content |-> c] : c \in Completions }

\* ------------------------------------------------------------------------
\* The session store: main.py keeps every session in one file (HISTORY_FILE),
\* a list of session records; a.py keeps one file per session id in
\* HISTORY_DIR, an object with the messages of that session.
\* ------------------------------------------------------------------------

\* number of concurrent writers of the session store
MaxWriters == 2

Writers == 1..MaxWriters

SessionIds == {"s1", "s2"}

\* a message of a session, told apart by a number
Message(n) == [role |-> "assistant", n |-> n]

\* what HISTORY_FILE may hold: nothing (no file), the empty text, text that
\* is not JSON, a JSON object, a list of values that are not objects, or a
\* list of session records
FileKinds == {"missing", "empty", "garbage", "object", "scalars", "sessions"}

HistoryFile(kind, sessions) == [kind |-> kind, sessions |-> sessions]

\* what a file of HISTORY_DIR may hold: nothing, the empty text, text that is
\* not JSON, a JSON list, or a session object
DirKinds == {"missing", "empty", "garbage", "list", "session"}

SessionFile(kind, messages) == [kind |-> kind, messages |-> messages]

\* main.py load_history: [] unless the file holds a JSON list, which is
\* returned as it is, whatever its elements are
load_history(f) ==
    IF f.kind \in {"scalars", "sessions"}
    THEN [shape |-> f.kind, sessions |-> f.sessions]
    ELSE [shape |-> "sessions", sessions |-> <<>>]

\* main.py save_history
save_history(sessions) == HistoryFile("sessions", sessions)

\* the index of the first record of session sid, 0 when there is none
FirstOf(sessions, sid) ==
    IF \E k \in DOMAIN sessions : sessions[k].session_id = sid
    THEN CHOOSE k \in DOMAIN sessions :
            /\ sessions[k].session_id = sid
            /\ \A j \in 1..(k - 1) : sessions[j].session_id # sid
    ELSE 0

\* an append that never looks for the record of the session
add_session_message_new_record(loaded, sid, message) ==
    IF loaded.shape = "scalars" THEN [raised |-> TRUE, sessions |-> <<>>]
    ELSE [raised |-> FALSE,
          sessions |-> Append(loaded.sessions, [session_id |-> sid, messages |-> <<message>>])]

\* main.py add_session_message between load_history and save_history: s.get
\* raises on an element that is not an object; the message goes to the first
\* record of the session, or to a new record at the end
add_session_message(loaded, sid, message) ==
    LET k == FirstOf(loaded.sessions, sid)
    IN  IF loaded.shape = "scalars" THEN [raised |-> TRUE, sessions |-> <<>>]
        ELSE IF k > 0
        THEN [raised |-> FALSE,
              sessions |-> [loaded.sessions EXCEPT ![k].messages = Append(@, message)]]
        ELSE [raised |-> FALSE,
              sessions |-> Append(loaded.sessions, [session_id |-> sid, messages |-> <<message>>])]

\* main.py get_session on what load_history returned
get_session(loaded, sid) ==
    LET k == FirstOf(loaded.sessions, sid)
    IN  IF loaded.shape = "scalars" THEN [raised |-> TRUE, messages |-> <<>>]
        ELSE IF k > 0 THEN [raised |-> FALSE, messages |-> loaded.sessions[k].messages]
        ELSE [raised |-> FALSE, messages |-> <<>>]

\* a.py save_chat_history: the file of the session is written anew with the
\* messages given
save_chat_history(dir, sid, messages) ==
    [dir EXCEPT ![sid] = SessionFile("session", messages)]

\* a.py load_chat_history: [] without the file; json.load raises on text that
\* is not JSON, data.get raises on a list
load_chat_history(dir, sid) ==
    IF dir[sid].kind = "missing" THEN [raised |-> FALSE, messages |-> <<>>]
    ELSE IF dir[sid].kind = "session" THEN [raised |-> FALSE, messages |-> dir[sid].messages]
    ELSE [raised |-> TRUE, messages |-> <<>>]

\* get_history, as the number of sessions listed.  main.py returns what
\* load_history returned (a list of values that are not objects included);
\* a.py skips the files that cannot be read as a session
get_history(i, f, dir) ==
    IF i = "main"
    THEN (IF load_history(f).shape = "scalars" THEN 1 ELSE Len(load_history(f).sessions))
    ELSE Cardinality({sid \in SessionIds : dir[sid].kind = "session"})

\* the messages the store holds for session sid
Persisted(i, f, dir, sid) ==
    IF i = "main"
    THEN (IF f.kind = "sessions" /\ FirstOf(f.sessions, sid) > 0
          THEN f.sessions[FirstOf(f.sessions, sid)].messages ELSE <<>>)
    ELSE (IF dir[sid].kind = "session" THEN dir[sid].messages ELSE <<>>)

\* ------------------------------------------------------------------------
\* State
\* ------------------------------------------------------------------------

VARIABLES
    impl,          \* which version of the service runs: "main", "a" or "svc"
    mistral_key,   \* MISTRAL_API_KEY is set
    groq_key,      \* GROQ_API_KEY is set
    inited,        \* the attributes of the LLMService object exist
    mistral,       \* self.mistral / self.mistral_client is a client
    groq,          \* self.groq / self.groq_client is a client
    template_id,   \* the template id of the request
    files,         \* number of files of the request (callers of extract)
    llm_pc,        \* per document: position inside LLMService.extract
    provider,      \* per document: the provider the adapter is working on
    retry,         \* per document: retry counter / attempt index of the adapter
    call_log,      \* per document: the providers called, in call order
    sleep_log,     \* per document: the backoff sleeps, [p, secs], in order
    seen,          \* per document and provider: kinds of outcome seen so far
    last_content,  \* per document: the completion of the latest provider call
    last_kind,     \* per document: how the adapter saw the latest provider call
    llm_result,    \* per document: what extract returned or raised
    pdf,           \* per document: kind of the uploaded file
    file_pc,       \* per document: position inside process_file
    file_result,   \* per document: the entry process_file produced
    req_pc,        \* position of the request handler
    response,      \* the response of the request handler
    reports,       \* number of report files in OUTPUT_DIR
    history_file,  \* main.py: the content of HISTORY_FILE
    history_dir,   \* a.py: per session id, the content of its file in HISTORY_DIR
    w_pc,          \* per writer: position inside its session-store append
    w_sid,         \* per writer: the session id it appends to
    w_loaded,      \* per writer: what load_history returned to it
    appended,      \* per session id: the messages whose append completed, in order
    overlap,       \* an append began while another was between its read and its write
    store_out,     \* the outcome of the latest session-store operation
    merge_data,    \* _merge_fund_data: the argument data, one mapping per file
    merge_input,   \* the value of data when _merge_fund_data was first called with it
    merge_returns, \* the values the calls of _merge_fund_data on data returned, in order
    merged,        \* _merge_fund_data: the local merged
    merge_i,       \* _merge_fund_data: the index of the next file of the loop
    merge_err,     \* _merge_fund_data: it raised
    stats_data,    \* process_file: the data whose fields are counted
    total_fields,  \* process_file: total_fields
    total_conf,    \* process_file: total_conf
    avg_conf,      \* process_file: avg_conf, in tenths
    stats_pc,      \* process_file: position of the field count
    pdf_methods,   \* extract_pdf_text: what each extraction method does with the file
    text_out       \* extract_pdf_text: the methods tried and the result

llm_vars == <<llm_pc, provider, retry, call_log, sleep_log, seen, last_content, last_kind, llm_result>>

cfg_vars == <<impl, mistral_key, groq_key, inited, mistral, groq, template_id, files>>

req_vars == <<pdf, file_pc, file_result, req_pc, response>>

store_vars == <<history_file, history_dir, w_pc, w_sid, w_loaded, appended, overlap, store_out>>

merge_vars == <<merge_data, merge_input, merge_returns, merged, merge_i, merge_err>>

stats_vars == <<stats_data, total_fields, total_conf, avg_conf, stats_pc>>

text_vars == <<pdf_methods, text_out>>

calc_vars == <<merge_vars, stats_vars, text_vars>>

vars == <<cfg_vars, llm_vars, req_vars, reports, store_vars, calc_vars>>

Kinds == {"transient", "permanent", "unparseable", "recursion", "nondict", "empty", "parsed"}

NoResult == [status |-> "none", data |-> EmptyDict, err |-> ""]

NoEntry == [status |-> "none", error |-> "", data |-> EmptyDict]

NoResponse == [code |-> 0, results |-> <<>>]

\* cleaning and parsing as the code around them sees it: a value, or an
\* exception.  In main.py and a.py the steps stand in the try block of the
\* adapter and json.loads raises out of them; _parse_json_response of
\* llm_service.py catches JSONDecodeError, and only that, and returns None
parse_json_response(i, content) ==
    LET j == JsonLoads(Clean(i, content))
    IN  IF j.ok THEN [raised |-> FALSE, value |-> j.v]
        ELSE IF j.v = "RecursionError" THEN [raised |-> TRUE, value |-> "none"]
        ELSE [raised |-> (i # "svc"), value |-> "none"]

\* json.loads of the cleaned completion, tabulated over the implementations
\* and the completions
ParseTable == [i \in Impls |-> [c \in Completions |-> JsonLoads(Clean(i, c))]]

Parsed(i, content) == ParseTable[i][content]

\* how an adapter sees a provider outcome: the error kind, or what cleaning
\* and json.loads make of the completion
Classify(i, o) ==
    IF o.kind # "content" THEN o.kind
    ELSE LET j == Parsed(i, o.content)
         IN  IF ~j.ok THEN (IF j.v = "RecursionError" THEN "recursion" ELSE "unparseable")
             ELSE IF i = "svc"
                  THEN (IF j.v = "OBJ_EMPTY" THEN "empty" ELSE "parsed")
                  ELSE (IF j.v = "ARR" THEN "nondict" ELSE "parsed")

\* LLMService.__init__ of main.py and a.py runs at construction; the
\* initialiser of llm_service.py is named _init_, so construction leaves the
\* object without attributes until _init_ is called
ClientChoices(i, key) == IF key /\ i = "a" THEN BOOLEAN ELSE {key}

LLMInit ==
    /\ impl \in Impls
    /\ mistral_key \in BOOLEAN
    /\ groq_key \in BOOLEAN
    /\ inited = (impl # "svc")
    /\ mistral = (impl # "svc" /\ mistral_key)
    /\ groq \in (IF impl = "svc" THEN {FALSE} ELSE ClientChoices(impl, groq_key))
    /\ llm_pc = [d \in Docs |-> "idle"]
    /\ provider = [d \in Docs |-> "none"]
    /\ retry = [d \in Docs |-> 0]
    /\ call_log = [d \in Docs |-> <<>>]
    /\ sleep_log = [d \in Docs |-> <<>>]
    /\ seen = [d \in Docs |-> [p \in Providers |-> {}]]
    /\ last_content = [d \in Docs |-> <<>>]
    /\ last_kind = [d \in Docs |-> "none"]
    /\ llm_result = [d \in Docs |-> NoResult]

NoStatsData == [fields |-> <<>>, items |-> <<>>]

NoLoad == [loaded |-> [shape |-> "sessions", sessions |-> <<>>], bad |-> FALSE]

NoOut == [op |-> "none", bad |-> FALSE, raised |-> FALSE, messages |-> <<>>, count |-> 0]

\* the session store and the report directory before any request
StoreIdle ==
    /\ reports = 0
    /\ history_file = HistoryFile("missing", <<>>)
    /\ history_dir = [sid \in SessionIds |-> SessionFile("missing", <<>>)]
    /\ w_pc = [w \in Writers |-> "idle"]
    /\ w_sid = [w \in Writers |-> "s1"]
    /\ w_loaded = [w \in Writers |-> NoLoad]
    /\ appended = [sid \in SessionIds |-> <<>>]
    /\ overlap = FALSE
    /\ store_out = NoOut

\* no merge and no field count under way
\* what one extraction method does with a file: it raises, or yields len
\* characters of text (counted after strip)
Yield(raises, len) == [raises |-> raises, len |-> len]

NoPdfMethods == [primary |-> Yield(FALSE, 0), secondary |-> Yield(FALSE, 0), ocr |-> Yield(FALSE, 0)]

NoText == [status |-> "none", tried |-> <<>>, len |-> 0]

TextIdle ==
    /\ pdf_methods = NoPdfMethods
    /\ text_out = NoText

CalcIdle ==
    /\ TextIdle
    /\ merge_data = <<>>
    /\ merge_input = <<>>
    /\ merge_returns = <<>>
    /\ merged = EmptyDict
    /\ merge_i = 1
    /\ merge_err = FALSE
    /\ stats_data = NoStatsData
    /\ total_fields = 0
    /\ total_conf = 0
    /\ avg_conf = 0
    /\ stats_pc = "none"

\* Init of the service called directly (one caller, no request handler)
Init ==
    /\ LLMInit
    /\ StoreIdle
    /\ CalcIdle
    /\ template_id \in TemplateIds(impl)
    /\ files = 1
    /\ pdf = [d \in Docs |-> "text"]
    /\ file_pc = [d \in Docs |-> "direct"]
    /\ file_result = [d \in Docs |-> NoEntry]
    /\ req_pc = "none"
    /\ response = NoResponse

\* llm_service.py: _init_ called explicitly; a client that fails to
\* construct is left None
SvcInit ==
    /\ impl = "svc"
    /\ ~inited
    /\ \A d \in Docs : llm_pc[d] = "idle"
    /\ inited' = TRUE
    /\ mistral' \in (IF mistral_key THEN BOOLEAN ELSE {FALSE})
    /\ groq' \in (IF groq_key THEN BOOLEAN ELSE {FALSE})
    /\ UNCHANGED <<impl, mistral_key, groq_key, template_id, files, llm_vars, req_vars, reports, store_vars, calc_vars>>

\* ------------------------------------------------------------------------
\* LLMService: extract and the provider adapters
\* ------------------------------------------------------------------------

\* A step of extract leaves the caller at a position (pc) with a provider and
\* a retry counter, possibly after scheduling a sleep (secs, -1 for none),
\* possibly with a result.
Goto(pc, p, r) == [pc |-> pc, prov |-> p, retry |-> r, secs |-> -1, result |-> NoResult]

Sleep(p, r, secs) == [pc |-> "sleep", prov |-> p, retry |-> r, secs |-> secs, result |-> NoResult]

Return(p, r, d) ==
    [pc |-> "returned", prov |-> p, retry |-> r, secs |-> -1,
     result |-> [status |-> "ok", data |-> d, err |-> ""]]

Raise(p, r, msg) ==
    [pc |-> "raised", prov |-> p, retry |-> r, secs |-> -1,
     result |-> [status |-> "raise", data |-> EmptyDict, err |-> msg]]

AllFailed == "All LLM providers failed"

NotConfigured == "No LLM providers configured"

BothFailed == "Failed to extract data with both Mistral and Groq"

\* main.py extract raises the same HTTPException whether the providers failed
\* or none is configured; a.py raises "All LLM providers failed" only inside
\* the Groq handler and "No LLM providers configured" at the end
RaiseMessage(i, p, called) ==
    IF i = "main" THEN AllFailed
    ELSE IF i = "a" THEN (IF p = "groq" /\ called THEN AllFailed ELSE NotConfigured)
    ELSE BothFailed

\* extract after the adapter of provider p raised (main.py, a.py) or returned
\* None (llm_service.py): Groq is tried after Mistral when it is configured
AdapterFailed(i, p, r, groqOn) ==
    IF p = "mistral" /\ groqOn THEN Goto("call", "groq", 0)
    ELSE Raise(p, r, RaiseMessage(i, p, TRUE))

\* an adapter that retries while retry < max_retries - 1
AdapterStepOneLess(i, p, r, o, tid, groqOn) ==
    LET k == Classify(i, o)
        j == Parsed(i, o.content)
    IN  IF k = "parsed" THEN Return(p, r, Tagged(i, PyValue(j.v, tid).d, p, tid, r))
        ELSE IF k = "unparseable" /\ r < max_retries - 1 THEN Sleep(p, r, 2 ^ r)
        ELSE AdapterFailed(i, p, r, groqOn)

\* an adapter that retries while retry <= max_retries
AdapterStepOneMore(i, p, r, o, tid, groqOn) ==
    LET k == Classify(i, o)
        j == Parsed(i, o.content)
    IN  IF k = "parsed" THEN Return(p, r, Tagged(i, PyValue(j.v, tid).d, p, tid, r))
        ELSE IF k = "unparseable" /\ r <= max_retries THEN Sleep(p, r, 2 ^ r)
        ELSE AdapterFailed(i, p, r, groqOn)

\* extract_with_mistral / extract_with_groq of main.py and a.py, one provider
\* call with outcome o at retry counter r
AdapterStep(i, p, r, o, tid, groqOn) ==
    LET k == Classify(i, o)
        j == Parsed(i, o.content)
    IN  IF k = "parsed" THEN Return(p, r, Tagged(i, PyValue(j.v, tid).d, p, tid, r))
        ELSE IF k = "unparseable" /\ r < max_retries THEN Sleep(p, r, 2 ^ r)
        ELSE AdapterFailed(i, p, r, groqOn)

\* _extract_with_mistral / _extract_with_groq of llm_service.py, attempt r of
\* range(max_retries), followed by the rest of extract_data
SvcAdapterStep(p, r, o, tid, groqOn) ==
    LET k == Classify("svc", o)
        j == Parsed("svc", o.content)
        v == PyValue(j.v, tid)
    IN  IF k = "parsed"
        THEN (IF v.py = "dict" THEN Return(p, r, ValidateAndClean(v.d, tid))
              ELSE Raise(p, r, "TypeError"))
        ELSE IF k \in {"transient", "permanent", "recursion"}
        THEN (IF r < max_retries - 1 THEN Sleep(p, r, 2 ^ r)
              ELSE AdapterFailed("svc", p, r, groqOn))
        ELSE (IF r + 1 < max_retries THEN Goto("call", p, r + 1)
              ELSE AdapterFailed("svc", p, r, groqOn))

\* the entry of extract / extract_data, up to the first provider call
ExtractEntry(i, isInited, mistralOn, groqOn) ==
    IF ~isInited THEN Raise("none", 0, "AttributeError")
    ELSE IF mistralOn THEN Goto("call", "mistral", 0)
    ELSE IF groqOn THEN Goto("call", "groq", 0)
    ELSE Raise("none", 0, RaiseMessage(i, "none", FALSE))

\* move document d to the position a step computed
Move(d, st) ==
    /\ llm_pc' = [llm_pc EXCEPT ![d] = st.pc]
    /\ provider' = [provider EXCEPT ![d] = st.prov]
    /\ retry' = [retry EXCEPT ![d] = st.retry]
    /\ llm_result' = [llm_result EXCEPT ![d] = st.result]

\* the same, logging the sleep the step scheduled
Apply(d, st) ==
    /\ Move(d, st)
    /\ sleep_log' = [sleep_log EXCEPT ![d] =
                        IF st.secs >= 0 THEN Append(@, [p |-> st.prov, secs |-> st.secs]) ELSE @]

\* the caller invokes llm_service.extract for document d
ExtractCall(d) ==
    /\ d \in 1..files
    /\ file_pc[d] \in {"direct", "llm"}
    /\ llm_pc[d] = "idle"
    /\ Apply(d, ExtractEntry(impl, inited, mistral, groq))
    /\ UNCHANGED <<cfg_vars, call_log, seen, last_content, last_kind, req_vars, reports, store_vars, calc_vars>>

\* one call to the provider the adapter is working on, with any outcome
ProviderCall(d) ==
    /\ d \in 1..files
    /\ llm_pc[d] = "call"
    /\ \E o \in Outcomes :
         /\ call_log' = [call_log EXCEPT ![d] = Append(@, provider[d])]
         /\ seen' = [seen EXCEPT ![d][provider[d]] = @ \cup {Classify(impl, o)}]
         /\ last_content' = [last_content EXCEPT ![d] = o.content]
         /\ last_kind' = [last_kind EXCEPT ![d] = Classify(impl, o)]
         /\ Apply(d, IF impl = "svc"
                     THEN SvcAdapterStep(provider[d], retry[d], o, template_id, groq)
                     ELSE AdapterStep(impl, provider[d], retry[d], o, template_id, groq))
    /\ UNCHANGED <<cfg_vars, req_vars, reports, store_vars, calc_vars>>

\* asyncio.sleep returns: the adapter calls the provider again
SleepDone(d) ==
    /\ d \in 1..files
    /\ llm_pc[d] = "sleep"
    /\ llm_pc' = [llm_pc EXCEPT ![d] = "call"]
    /\ retry' = [retry EXCEPT ![d] = @ + 1]
    /\ UNCHANGED <<cfg_vars, provider, call_log, sleep_log, seen, last_content, last_kind, llm_result, req_vars, reports, store_vars, calc_vars>>

\* ------------------------------------------------------------------------
\* The request handler: POST /api/extract
\* ------------------------------------------------------------------------

PdfKinds == {"text", "corrupt", "notext"}

\* extract_pdf_text of main.py: an exception of pdfplumber or PyPDF2 gives
\* success False; a file without text still gives success True.
\* a.py: is_scanned_pdf is True for a file that cannot be read or has little
\* text, and then ocr_pdf supplies the text (the empty string when OCR fails);
\* otherwise extract_pdf_text is used and has text.
TextExtractionFails(i, kind) == i = "main" /\ kind = "corrupt"

\* the sections whose values process_file of main.py walks to count fields
CountedSections(tid) ==
    IF tid = "template_1" THEN Sections(tid) \ {"footnotes"}
    ELSE IF tid = "template_2" THEN Sections(tid)
    ELSE Sections(tid)

\* counting fields raises in main.py when a counted section is present and is
\* neither a mapping nor a list; count_fields of a.py skips such values
StatsRaise(i, tid, d) ==
    /\ i = "main"
    /\ \E k \in CountedSections(tid) \cap DOMAIN d : d[k].t \notin {"map", "list"}

\* the entry of one file in the results list
ErrorEntry(msg) == [status |-> "error", error |-> msg, data |-> EmptyDict]

SuccessEntry(d) ==
    [status |-> "success", error |-> "",
     data |-> IF "metadata" \in DOMAIN d THEN d ELSE SetKey(d, "metadata", MapV)]

\* the end of process_file (main.py) / of the loop body (a.py) once extract
\* has returned or raised
FileEntry(i, tid, res) ==
    IF res.status = "raise" THEN ErrorEntry(res.err)
    ELSE IF StatsRaise(i, tid, res.data) THEN ErrorEntry("AttributeError")
    ELSE SuccessEntry(res.data)

\* generate_excel raises: main.py creates the sheets inside the loop over the
\* successful results, so a workbook without one is saved with no sheet,
\* which openpyxl refuses; a.py reads every section with .get on the value,
\* which fails on a null section
RenderRaises(i, tid, entries) ==
    IF i = "main"
    THEN \A k \in 1..Len(entries) : entries[k].status # "success"
    ELSE \E k \in 1..Len(entries) :
            \E sec \in Sections(tid) \cap DOMAIN entries[k].data :
                entries[k].data[sec].t = "null"

\* the number of sheets generate_excel creates for a declared sheet (named
\* here by the section it shows): generate_excel_template1/2/3 of main.py
\* call wb.create_sheet for every declared sheet inside the loop over the
\* successful results, once per result; a.py creates its sheets once,
\* before the loops over the data
SheetsCreated(i, tid, entries, sec) ==
    IF i = "main"
    THEN Cardinality({k \in 1..Len(entries) : entries[k].status = "success"})
    ELSE 1

\* a results list that keeps only the files that succeeded
FinalResultsDropFailed(entries) == SelectSeq(entries, LAMBDA e : e.status = "success")

\* extract_endpoint after gather: every task result becomes one entry
FinalResults(entries) == entries

\* a template id that is not a known template
UnknownTemplate == "template_x"

\* the session id of the request
RequestSession == "s1"

\* the message the request appends to its session
RequestMessage == Message(0)

\* Init of a request with 1..MaxDocs files
InitRequest ==
    /\ LLMInit
    /\ StoreIdle
    /\ CalcIdle
    /\ template_id \in TemplateIds(impl) \cup {UnknownTemplate}
    /\ files \in 1..MaxDocs
    /\ pdf = [d \in Docs |-> "unread"]
    /\ file_pc = [d \in Docs |-> "start"]
    /\ file_result = [d \in Docs |-> NoEntry]
    /\ req_pc = "gather"
    /\ response = NoResponse

\* the request handled by main.py (extract_endpoint)
InitBatch == InitRequest /\ impl = "main"

\* the request handled by a.py (extract)
InitBatchA == InitRequest /\ impl = "a"

\* the tasks of main.py run concurrently; the loop of a.py takes the files
\* in order
MayRun(d) ==
    /\ d \in 1..files
    /\ req_pc = "gather"
    /\ impl = "main" => template_id \in TemplateIds(impl)
    /\ impl = "a" => \A e \in 1..(d - 1) : file_pc[e] = "done"

\* process_file up to its first await: file.read()
PF_Start(d) ==
    /\ MayRun(d)
    /\ file_pc[d] = "start"
    /\ file_pc' = [file_pc EXCEPT ![d] = "read"]
    /\ UNCHANGED <<cfg_vars, llm_vars, pdf, file_result, req_pc, response, reports, store_vars, calc_vars>>

\* where a file is once extract stands at st: asleep inside the adapter, or
\* at the end of process_file with its entry (the frame of extract is gone)
Settle(d, st) ==
    IF st.pc = "sleep"
    THEN /\ Move(d, st)
         /\ file_pc' = [file_pc EXCEPT ![d] = "llm"]
         /\ UNCHANGED file_result
    ELSE /\ Move(d, [st EXCEPT !.prov = "none", !.retry = 0])
         /\ file_pc' = [file_pc EXCEPT ![d] = "done"]
         /\ file_result' = [file_result EXCEPT ![d] = FileEntry(impl, template_id, st.result)]

\* the positions one provider call can lead to from position st
StepsFrom(st) ==
    { AdapterStep(impl, st.prov, st.retry, o, template_id, groq) : o \in Outcomes }

\* extract from position st up to the next await (a sleep) or to its end: a
\* provider call, and when the Mistral adapter fails the Groq call at once
RunExtract(d, st) ==
    IF st.pc # "call" THEN Settle(d, st)
    ELSE \E s1 \in StepsFrom(st) :
           IF s1.pc # "call" THEN Settle(d, s1)
           ELSE \E s2 \in StepsFrom(s1) : Settle(d, s2)

\* process_file after the read: text extraction, then extract up to its
\* first sleep or to the returned entry
PF_Run(d) ==
    /\ MayRun(d)
    /\ file_pc[d] = "read"
    /\ \E kind \in PdfKinds :
         /\ pdf' = [pdf EXCEPT ![d] = kind]
         /\ IF TextExtractionFails(impl, kind)
            THEN /\ file_pc' = [file_pc EXCEPT ![d] = "done"]
                 /\ file_result' = [file_result EXCEPT ![d] = ErrorEntry("PDF extraction failed")]
                 /\ UNCHANGED <<llm_pc, provider, retry, llm_result>>
            ELSE RunExtract(d, ExtractEntry(impl, inited, mistral, groq))
    /\ UNCHANGED <<cfg_vars, call_log, sleep_log, seen, last_content, last_kind, req_pc, response, reports, store_vars, calc_vars>>

\* process_file after a backoff sleep of the adapter
PF_Resume(d) ==
    /\ MayRun(d)
    /\ file_pc[d] = "llm"
    /\ llm_pc[d] = "sleep"
    /\ RunExtract(d, Goto("call", provider[d], retry[d] + 1))
    /\ UNCHANGED <<cfg_vars, call_log, sleep_log, seen, last_content, last_kind, pdf, req_pc, response, reports, store_vars, calc_vars>>

\* the request saves its message: add_session_message in main.py (no await
\* between its read and its write), save_chat_history in a.py
SaveToHistory ==
    /\ IF impl = "main"
       THEN /\ history_file' = save_history(add_session_message(load_history(history_file),
                                                RequestSession, RequestMessage).sessions)
            /\ UNCHANGED history_dir
       ELSE /\ history_dir' = save_chat_history(history_dir, RequestSession, <<RequestMessage>>)
            /\ UNCHANGED history_file
    /\ appended' = [appended EXCEPT ![RequestSession] = Append(@, RequestMessage)]

\* extract_endpoint once every task is done: the results list, the report
\* and the response; an exception of generate_excel ends the request with
\* an internal server error
EndpointFinish ==
    /\ req_pc = "gather"
    /\ \A d \in 1..files : file_pc[d] = "done"
    /\ LET entries == FinalResults([d \in 1..files |-> file_result[d]])
       IN  IF RenderRaises(impl, template_id, entries)
           THEN /\ req_pc' = "failed"
                /\ response' = [code |-> 500, results |-> <<>>]
                /\ UNCHANGED <<reports, history_file, history_dir, appended>>
           ELSE /\ req_pc' = "responded"
                /\ response' = [code |-> 200, results |-> entries]
                /\ reports' = reports + 1
                /\ SaveToHistory
    /\ UNCHANGED <<cfg_vars, llm_vars, pdf, file_pc, file_result, w_pc, w_sid, w_loaded, overlap, store_out, calc_vars>>

\* main.py extract_endpoint: a template id that is not in TEMPLATES is
\* answered with HTTPException(400) before any task is created
RejectTemplate ==
    /\ req_pc = "gather"
    /\ impl = "main"
    /\ template_id \notin TemplateIds(impl)
    /\ req_pc' = "rejected"
    /\ response' = [code |-> 400, results |-> <<>>]
    /\ UNCHANGED <<cfg_vars, llm_vars, pdf, file_pc, file_result, reports, store_vars, calc_vars>>

Next ==
    \/ SvcInit
    \/ \E d \in Docs : ExtractCall(d)
    \/ \E d \in Docs : ProviderCall(d)
    \/ \E d \in Docs : SleepDone(d)

Spec == Init /\ [][Next]_vars

NextBatch ==
    \/ RejectTemplate
    \/ \E d \in Docs : PF_Start(d)
    \/ \E d \in Docs : PF_Run(d)
    \/ \E d \in Docs : PF_Resume(d)
    \/ EndpointFinish

SpecBatch == InitBatch /\ [][NextBatch]_vars

\* a.py has no check of the template id
NextBatchA ==
    \/ \E d \in Docs : PF_Start(d)
    \/ \E d \in Docs : PF_Run(d)
    \/ \E d \in Docs : PF_Resume(d)
    \/ EndpointFinish

SpecBatchA == InitBatchA /\ [][NextBatchA]_vars

\* ------------------------------------------------------------------------
\* The session store used by several writers and readers
\* ------------------------------------------------------------------------

\* Init of the session store: the persisted file(s) in any condition, the
\* service without keys and no request under way
InitStore ==
    /\ LLMInit
    /\ CalcIdle
    /\ impl \in {"main", "a"}
    /\ ~mistral_key
    /\ ~groq_key
    /\ template_id \in TemplateIds(impl)
    /\ files = 1
    /\ pdf = [d \in Docs |-> "text"]
    /\ file_pc = [d \in Docs |-> "direct"]
    /\ file_result = [d \in Docs |-> NoEntry]
    /\ req_pc = "none"
    /\ response = NoResponse
    /\ reports = 0
    /\ history_file \in (IF impl = "main" THEN {HistoryFile(k, <<>>) : k \in FileKinds}
                         ELSE {HistoryFile("missing", <<>>)})
    /\ history_dir \in (IF impl = "a" THEN [SessionIds -> {SessionFile(k, <<>>) : k \in DirKinds}]
                        ELSE {[sid \in SessionIds |-> SessionFile("missing", <<>>)]})
    /\ w_pc = [w \in Writers |-> "idle"]
    /\ w_sid = [w \in Writers |-> "s1"]
    /\ w_loaded = [w \in Writers |-> NoLoad]
    /\ appended = [sid \in SessionIds |-> <<>>]
    /\ overlap = FALSE
    /\ store_out = NoOut

StoreOut(op, bad, raised, messages, count) ==
    [op |-> op, bad |-> bad, raised |-> raised, messages |-> messages, count |-> count]

\* main.py add_session_message, first step: sessions = load_history()
AddSessionMessage_Load(w) ==
    /\ impl = "main"
    /\ w_pc[w] = "idle"
    /\ \E sid \in SessionIds : w_sid' = [w_sid EXCEPT ![w] = sid]
    /\ w_loaded' = [w_loaded EXCEPT ![w] = [loaded |-> load_history(history_file),
                                             bad |-> history_file.kind # "sessions"]]
    /\ w_pc' = [w_pc EXCEPT ![w] = "loaded"]
    /\ overlap' = (overlap \/ \E v \in Writers \ {w} : w_pc[v] = "loaded")
    /\ UNCHANGED <<cfg_vars, llm_vars, req_vars, reports, history_file, history_dir, appended, store_out, calc_vars>>

\* main.py add_session_message, second step: the message is put into the
\* loaded sessions, which save_history writes over the file
AddSessionMessage_Save(w) ==
    /\ impl = "main"
    /\ w_pc[w] = "loaded"
    /\ LET r == add_session_message(w_loaded[w].loaded, w_sid[w], Message(w))
       IN  /\ store_out' = StoreOut("append", w_loaded[w].bad, r.raised, <<>>, 0)
           /\ IF r.raised
              THEN /\ w_pc' = [w_pc EXCEPT ![w] = "raised"]
                   /\ UNCHANGED <<history_file, appended>>
              ELSE /\ w_pc' = [w_pc EXCEPT ![w] = "done"]
                   /\ history_file' = save_history(r.sessions)
                   /\ appended' = [appended EXCEPT ![w_sid[w]] = Append(@, Message(w))]
    /\ UNCHANGED <<cfg_vars, llm_vars, req_vars, reports, history_dir, w_sid, w_loaded, overlap, calc_vars>>

\* a.py extract, last step: save_chat_history(session_id, results)
SaveChatHistory(w) ==
    /\ impl = "a"
    /\ w_pc[w] = "idle"
    /\ \E sid \in SessionIds :
         /\ w_sid' = [w_sid EXCEPT ![w] = sid]
         /\ history_dir' = save_chat_history(history_dir, sid, <<Message(w)>>)
         /\ appended' = [appended EXCEPT ![sid] = Append(@, Message(w))]
         /\ store_out' = StoreOut("append", history_dir[sid].kind # "session", FALSE, <<>>, 0)
    /\ w_pc' = [w_pc EXCEPT ![w] = "done"]
    /\ UNCHANGED <<cfg_vars, llm_vars, req_vars, reports, history_file, w_loaded, overlap, calc_vars>>

\* GET /api/history/{session_id}
GetSession ==
    /\ \E sid \in SessionIds :
         LET r == IF impl = "main" THEN get_session(load_history(history_file), sid)
                  ELSE load_chat_history(history_dir, sid)
             bad == IF impl = "main" THEN history_file.kind # "sessions"
                    ELSE history_dir[sid].kind # "session"
         IN  store_out' = StoreOut("get", bad, r.raised, r.messages, 0)
    /\ UNCHANGED <<cfg_vars, llm_vars, req_vars, reports, history_file, history_dir,
                   w_pc, w_sid, w_loaded, appended, overlap, calc_vars>>

\* GET /api/history
GetHistory ==
    /\ LET bad == IF impl = "main" THEN history_file.kind # "sessions"
                  ELSE \A sid \in SessionIds : history_dir[sid].kind # "session"
       IN  store_out' = StoreOut("list", bad, FALSE, <<>>, get_history(impl, history_file, history_dir))
    /\ UNCHANGED <<cfg_vars, llm_vars, req_vars, reports, history_file, history_dir,
                   w_pc, w_sid, w_loaded, appended, overlap, calc_vars>>

NextStore ==
    \/ \E w \in Writers : AddSessionMessage_Load(w)
    \/ \E w \in Writers : AddSessionMessage_Save(w)
    \/ \E w \in Writers : SaveChatHistory(w)
    \/ GetSession
    \/ GetHistory

SpecStore == InitStore /\ [][NextStore]_vars

\* ------------------------------------------------------------------------
\* ExcelGenerator._merge_fund_data (excel_generator.py)
\* ------------------------------------------------------------------------

\* number of file results merged
MaxMerge == 3

MergeKeys == {"portfolio_companies"}

\* the values a key may hold in the data of a file
MScalar(n) == [t |-> "scalar", items |-> <<n>>]

MMapping(n) == [t |-> "map", items |-> <<n>>]

MList(items) == [t |-> "list", items |-> items]

MNull == [t |-> "null", items |-> <<>>]

MergeValues ==
    { MScalar(n) : n \in 1..2 } \cup { MMapping(n) : n \in 1..2 }
    \cup { MList(<<>>), MList(<<1>>), MList(<<2>>), MNull }

\* file_data.get('data', {}): a mapping from some of the keys to values
FileDatas == UNION { [ks -> MergeValues] : ks \in SUBSET MergeKeys }

\* the body of the outer loop for one file: a key that is new is set to the
\* value; a key already there is extended when the new value is a list, and
\* extend raises AttributeError when the value already there is not a list
merge_fund_data(m, extracted) ==
    [ raised |-> \E k \in DOMAIN extracted \cap DOMAIN m :
                    extracted[k].t = "list" /\ m[k].t # "list",
      merged |-> [k \in DOMAIN m \cup DOMAIN extracted |->
                    IF k \notin DOMAIN m THEN extracted[k]
                    ELSE IF k \in DOMAIN extracted /\ extracted[k].t = "list"
                    THEN MList(m[k].items \o extracted[k].items)
                    ELSE m[k]] ]

\* Init of a merge over MaxMerge file results
InitMergeData ==
    /\ LLMInit
    /\ impl = "svc"
    /\ ~mistral_key
    /\ ~groq_key
    /\ template_id \in TemplateIds(impl)
    /\ files = 1
    /\ pdf = [d \in Docs |-> "text"]
    /\ file_pc = [d \in Docs |-> "direct"]
    /\ file_result = [d \in Docs |-> NoEntry]
    /\ req_pc = "none"
    /\ response = NoResponse
    /\ StoreIdle
    /\ TextIdle
    /\ merge_data \in [1..MaxMerge -> FileDatas]
    /\ merge_input = merge_data
    /\ merge_returns = <<>>
    /\ merged = EmptyDict
    /\ merge_i = 1
    /\ merge_err = FALSE
    /\ stats_data = NoStatsData
    /\ total_fields = 0
    /\ total_conf = 0
    /\ avg_conf = 0
    /\ stats_pc = "none"

\* the first of the files 1..n whose data has key k, 0 when none has
FirstWith(data, n, k) ==
    IF \E j \in 1..n : k \in DOMAIN data[j]
    THEN CHOOSE j \in 1..n : k \in DOMAIN data[j] /\ \A h \in 1..(j - 1) : k \notin DOMAIN data[h]
    ELSE 0

\* merged[key] = value stores the list object of the file itself, so
\* merged[key].extend(value) lengthens the list inside data, in the first
\* file that has the key: data after the outer loop took file n + 1, whose
\* data is extracted, with merged = m before
Extended(data, n, m, extracted) ==
    [j \in DOMAIN data |->
        [k \in DOMAIN data[j] |->
            IF /\ k \in DOMAIN m \cap DOMAIN extracted
               /\ extracted[k].t = "list"
               /\ m[k].t = "list"
               /\ j = FirstWith(data, n, k)
            THEN MList(data[j][k].items \o extracted[k].items)
            ELSE data[j][k]]]

\* number of calls of _merge_fund_data on the same data
MaxCalls == 2

\* one iteration of: for file_data in data
MergeFile ==
    /\ merge_i <= Len(merge_data)
    /\ ~merge_err
    /\ LET r == merge_fund_data(merged, merge_data[merge_i])
       IN  IF r.raised
           THEN /\ merge_err' = TRUE
                /\ UNCHANGED <<merged, merge_i, merge_data>>
           ELSE /\ merged' = r.merged
                /\ merge_i' = merge_i + 1
                /\ merge_data' = Extended(merge_data, merge_i - 1, merged, merge_data[merge_i])
                /\ UNCHANGED merge_err
    /\ UNCHANGED <<cfg_vars, llm_vars, req_vars, reports, store_vars, merge_input, merge_returns,
                   stats_vars, text_vars>>

\* return merged; the next sheet builder calls _merge_fund_data(data) again
MergeReturn ==
    /\ merge_i > Len(merge_data)
    /\ ~merge_err
    /\ Len(merge_returns) < MaxCalls
    /\ merge_returns' = Append(merge_returns, merged)
    /\ merged' = EmptyDict
    /\ merge_i' = 1
    /\ UNCHANGED <<cfg_vars, llm_vars, req_vars, reports, store_vars, merge_data, merge_input,
                   merge_err, stats_vars, text_vars>>

NextMerge == MergeFile \/ MergeReturn

SpecMerge == InitMergeData /\ [][NextMerge]_vars

\* ------------------------------------------------------------------------
\* process_file (main.py): the field count and the average confidence, for
\* template_1 and template_2, whose list sections hold items made of fields.
\* The data is one mapping section (its fields) and one list section (its
\* items, each a sequence of fields).
\* ------------------------------------------------------------------------

\* number of fields of a mapping section or of an item
MaxFields == 2

\* number of items of a list section
MaxItems == 2

\* the details of a field: whether it is a mapping with a "confidence" key,
\* and the confidence (0-100 in the prompts)
Details ==
    { [has |-> FALSE, confidence |-> 0], [has |-> TRUE, confidence |-> 0],
      [has |-> TRUE, confidence |-> 100] }

SeqsUpTo(S, n) == UNION { [1..k -> S] : k \in 0..n }

StatsDatas ==
    [ fields : SeqsUpTo(Details, MaxFields),
      items : SeqsUpTo(SeqsUpTo(Details, MaxFields), MaxItems) ]

\* the number of fields that have a confidence
RECURSIVE CountConf(_)
CountConf(fs) ==
    IF fs = <<>> THEN 0 ELSE (IF Head(fs).has THEN 1 ELSE 0) + CountConf(Tail(fs))

\* the sum of the confidences of the fields that have one
RECURSIVE SumConf(_)
SumConf(fs) ==
    IF fs = <<>> THEN 0 ELSE (IF Head(fs).has THEN Head(fs).confidence ELSE 0) + SumConf(Tail(fs))

RECURSIVE SumItems(_)
SumItems(items) ==
    IF items = <<>> THEN 0 ELSE SumConf(Head(items)) + SumItems(Tail(items))

\* a mapping section adds one field and its confidence per field with a
\* confidence; a list section adds len(list) fields and, in template_1
\* only, the confidence of every field of every item
CountStats(tid, data) ==
    [ total_fields |-> CountConf(data.fields) + Len(data.items),
      total_conf |-> SumConf(data.fields)
                     + (IF tid = "template_1" THEN SumItems(data.items) ELSE 0) ]

\* round(total_conf / total_fields, 1) in tenths, 0 without fields
Round1(conf, fields) ==
    IF fields = 0 THEN 0
    ELSE LET q == (conf * 10) \div fields
             r == (conf * 10) % fields
         IN  IF 2 * r > fields THEN q + 1
             ELSE IF 2 * r = fields THEN q + (q % 2)
             ELSE q

\* Init of the field count over any data of the bounded shape
InitStats ==
    /\ LLMInit
    /\ impl = "main"
    /\ ~mistral_key
    /\ ~groq_key
    /\ template_id \in {"template_1", "template_2"}
    /\ files = 1
    /\ pdf = [d \in Docs |-> "text"]
    /\ file_pc = [d \in Docs |-> "direct"]
    /\ file_result = [d \in Docs |-> NoEntry]
    /\ req_pc = "none"
    /\ response = NoResponse
    /\ StoreIdle
    /\ TextIdle
    /\ merge_data = <<>>
    /\ merge_input = <<>>
    /\ merge_returns = <<>>
    /\ merged = EmptyDict
    /\ merge_i = 1
    /\ merge_err = FALSE
    /\ stats_data \in StatsDatas
    /\ total_fields = 0
    /\ total_conf = 0
    /\ avg_conf = 0
    /\ stats_pc = "start"

\* the loops over the sections
CountFields ==
    /\ stats_pc = "start"
    /\ total_fields' = CountStats(template_id, stats_data).total_fields
    /\ total_conf' = CountStats(template_id, stats_data).total_conf
    /\ stats_pc' = "counted"
    /\ UNCHANGED <<cfg_vars, llm_vars, req_vars, reports, store_vars, merge_vars, text_vars, stats_data, avg_conf>>

\* avg_conf = round(total_conf / total_fields, 1) if total_fields else 0
Average ==
    /\ stats_pc = "counted"
    /\ avg_conf' = Round1(total_conf, total_fields)
    /\ stats_pc' = "done"
    /\ UNCHANGED <<cfg_vars, llm_vars, req_vars, reports, store_vars, merge_vars, text_vars, stats_data,
                   total_fields, total_conf>>

NextStats == CountFields \/ Average

SpecStats == InitStats /\ [][NextStats]_vars

\* ------------------------------------------------------------------------
\* Properties
\* ------------------------------------------------------------------------

Count(seq, x) == Cardinality({k \in DOMAIN seq : seq[k] = x})

LastCalled(d) == call_log[d][Len(call_log[d])]

\* the adapter of the provider called last is still at work (about to call
\* it again, or asleep before calling it again)
StillOn(d) ==
    /\ call_log[d] # <<>>
    /\ llm_pc[d] \in {"call", "sleep"}
    /\ provider[d] = LastCalled(d)

\* the adapter of provider p was used and is no longer at work
AdapterDone(d, p) ==
    /\ Count(call_log[d], p) > 0
    /\ ~(llm_pc[d] \in {"call", "sleep"} /\ provider[d] = p)

Finished(d) == llm_pc[d] \in {"returned", "raised"}

\* a completion that is itself the text of a non-empty JSON object
IsJsonObject(c) == JsonLoads(c).ok /\ JsonLoads(c).v \in {"OBJ_FULL", "OBJ_PART", "OBJ_NULL"}

TagKeys == {"_llm_model", "_template", "_retry_count"}

Untagged(d) == [k \in DOMAIN d \ TagKeys |-> d[k]]

\* C1: with both providers configured, when every call to Mistral raised and
\* Groq has just returned a JSON object P, extract returns P (the provider
\* tags aside), and Mistral was called before Groq.
C1_FallbackReturnsPayload ==
    \A d \in 1..files :
        ( /\ mistral /\ groq
          /\ call_log[d] # <<>>
          /\ LastCalled(d) = "groq"
          /\ seen[d]["mistral"] \subseteq {"transient", "permanent"}
          /\ IsJsonObject(last_content[d]) )
        => ( /\ llm_pc[d] = "returned"
             /\ Untagged(llm_result[d].data) = PyValue(JsonLoads(last_content[d]).v, template_id).d
             /\ call_log[d][1] = "mistral" )

\* C2: an adapter whose provider raised a transient error on every call has
\* called it exactly max_retries + 1 times when it gives up.
C2_TransientRetryCeiling ==
    \A d \in 1..files : \A p \in Providers :
        (AdapterDone(d, p) /\ seen[d][p] = {"transient"})
        => Count(call_log[d], p) = max_retries + 1

\* C3: when both adapters have used up their attempts on transient errors or
\* unusable completions, extract does not raise: it ends with an (empty)
\* result.
C3_ExhaustionGivesEmptyResult ==
    \A d \in 1..files :
        ( /\ Finished(d)
          /\ \A p \in Providers :
                seen[d][p] # {} /\ seen[d][p] \subseteq {"transient", "unparseable", "empty"} )
        => llm_result[d].status = "ok"

\* C4: the data extract returns has a key for every section the template
\* declares, holding a mapping or a list, never null and never missing.
C4_SectionCompleteness ==
    \A d \in 1..files :
        llm_pc[d] = "returned"
        => \A sec \in Sections(template_id) :
              /\ sec \in DOMAIN llm_result[d].data
              /\ llm_result[d].data[sec].t \in {"map", "list"}

RequestOver == req_pc # "gather"

\* C5: once a request with a valid template id is over, its response lists
\* exactly one entry per submitted file, each with status success or error,
\* and every error entry has a reason, whatever happened to the files.
C5_ResponseEnumeratesFiles ==
    (RequestOver /\ template_id \in TemplateIds(impl))
    => /\ response.code = 200
       /\ Len(response.results) = files
       /\ \A k \in 1..Len(response.results) :
             /\ response.results[k].status \in {"success", "error"}
             /\ response.results[k].status = "error" => response.results[k].error # ""

\* the entry a file gets from its own upload and its own extract result
OwnEntry(d) ==
    IF TextExtractionFails(impl, pdf[d]) THEN ErrorEntry("PDF extraction failed")
    ELSE FileEntry(impl, template_id, llm_result[d])

C7_ProviderFailureIsPerDocument ==
    (RequestOver /\ template_id \in TemplateIds(impl))
    => \A d \in 1..files :
          (mistral /\ groq /\ llm_result[d].status = "raise")
          => ( /\ response.code = 200
               /\ Len(response.results) = files
               /\ response.results[d].status = "error" )

\* C8: after a provider call that raised a permanent error the adapter is
\* through with that provider: it neither sleeps nor calls it again.
C8_PermanentErrorNotRetried ==
    \A d \in 1..files : last_kind[d] = "permanent" => ~StillOn(d)

\* C9: after a provider call whose completion could not be turned into data
\* the adapter does not call the same provider again.
C9_UnparseableNotRetried ==
    \A d \in 1..files : last_kind[d] \in {"unparseable", "empty"} => ~StillOn(d)

\* C10: in main.py and a.py a provider without key is never called, and
\* with no key at all an extract call ends raising a configuration error,
\* without any provider call and without returning data.
C10_MissingKeys ==
    impl \in {"main", "a"}
    => \A d \in 1..files :
          /\ ~mistral_key => Count(call_log[d], "mistral") = 0
          /\ ~groq_key => Count(call_log[d], "groq") = 0
          /\ (~mistral_key /\ ~groq_key /\ llm_pc[d] # "idle")
             => ( /\ llm_pc[d] = "raised"
                  /\ llm_result[d].err = NotConfigured
                  /\ call_log[d] = <<>> )

\* a provider was called for file d of the request
ProviderCalled(d) ==
    \/ llm_pc[d] = "sleep"
    \/ llm_result[d].status = "ok"
    \/ llm_result[d].status = "raise" /\ (mistral \/ groq)

\* C11: a request whose template id is not a known template makes no
\* provider call, writes no report and leaves the session history as it
\* was, and it is answered with a client error.
C11_UnknownTemplateRejected ==
    template_id \notin TemplateIds(impl)
    => /\ \A d \in 1..files : ~ProviderCalled(d)
       /\ reports = 0
       /\ history_file = HistoryFile("missing", <<>>)
       /\ \A sid \in SessionIds : history_dir[sid].kind = "missing"
       /\ RequestOver => response.code = 400

\* C12: a file without usable text (unreadable, or readable with no text in
\* it) ends as an entry with status error, and no provider is called for it.
C12_NoTextIsPerDocumentFailure ==
    \A d \in 1..files :
        (file_pc[d] = "done" /\ pdf[d] \in {"corrupt", "notext"})
        => (file_result[d].status = "error" /\ ~ProviderCalled(d))

\* the data extract returned for file d has a usable section and another
\* section that is missing or is neither a mapping nor a list
PartlyExtracted(d) ==
    /\ llm_result[d].status = "ok"
    /\ \E sec \in Sections(template_id) :
          sec \in DOMAIN llm_result[d].data /\ llm_result[d].data[sec].t \in {"map", "list"}
    /\ \E sec \in Sections(template_id) :
          sec \notin DOMAIN llm_result[d].data \/ llm_result[d].data[sec].t \notin {"map", "list"}

\* C13: a file whose extraction returned some usable sections and one
\* missing or null section ends as an entry with status success that
\* carries every section extract returned.
C13_PartialIsSuccess ==
    \A d \in 1..files :
        (file_pc[d] = "done" /\ PartlyExtracted(d))
        => /\ file_result[d].status = "success"
           /\ \A sec \in DOMAIN llm_result[d].data :
                 /\ sec \in DOMAIN file_result[d].data
                 /\ sec # "metadata" => file_result[d].data[sec] = llm_result[d].data[sec]

\* the position of message m in the sequence b
Pos(b, m) == CHOOSE j \in DOMAIN b : b[j] = m

\* every message of a is in b, in the order of a
InOrder(a, b) ==
    /\ \A i \in DOMAIN a : \E j \in DOMAIN b : b[j] = a[i]
    /\ \A i1, i2 \in DOMAIN a : i1 < i2 => Pos(b, a[i1]) < Pos(b, a[i2])

\* C14: as long as the appends ran one after the other, every message
\* appended to a session is still among the persisted messages of that
\* session, in the order appended.
C14_AppendOnly ==
    ~overlap
    => \A sid \in SessionIds :
          InOrder(appended[sid], Persisted(impl, history_file, history_dir, sid))

\* no append is between its read and its write
AppendsCompleted == \A w \in Writers : w_pc[w] # "loaded"

\* C15: in main.py, with the read and the write of concurrent appends
\* interleaved in any order, once all appends have completed the persisted
\* history holds every appended message.
C15_NoLostUpdate ==
    (impl = "main" /\ AppendsCompleted)
    => \A sid \in SessionIds : \A i \in DOMAIN appended[sid] :
          \E j \in DOMAIN Persisted(impl, history_file, history_dir, sid) :
              Persisted(impl, history_file, history_dir, sid)[j] = appended[sid][i]

\* C16: an operation of the session store that found the persisted file
\* missing, empty, not JSON or of another shape did not raise, and a get or
\* a list answered with an empty result.
C16_CorruptFileIsEmpty ==
    (store_out.op # "none" /\ store_out.bad)
    => /\ ~store_out.raised
       /\ store_out.op \in {"get", "list"} => (store_out.messages = <<>> /\ store_out.count = 0)

\* the items of the list values of key k in the files from..n, in file order
RECURSIVE ListItems(_, _, _, _)
ListItems(data, from, n, k) ==
    IF from > n THEN <<>>
    ELSE (IF k \in DOMAIN data[from] /\ data[from][k].t = "list"
          THEN data[from][k].items ELSE <<>>) \o ListItems(data, from + 1, n, k)

\* C17: merging never fails, and after any number of files the merged value
\* of a key is the first value given for it, followed when that value is a
\* list by the items of the later list values of the key; a later scalar
\* or mapping changes nothing.
C17_MergeFirstWins ==
    /\ ~merge_err
    /\ merge_returns = <<>>
       => \A k \in MergeKeys :
             LET n == merge_i - 1
                 f == FirstWith(merge_input, n, k)
             IN  IF f = 0 THEN k \notin DOMAIN merged
                 ELSE /\ k \in DOMAIN merged
                      /\ merged[k] = IF merge_input[f][k].t = "list"
                                     THEN MList(ListItems(merge_input, f, n, k))
                                     ELSE merge_input[f][k]

\* the fields of the data: those of the mapping section and of every item
Leaves(data) ==
    { data.fields[k] : k \in DOMAIN data.fields }
    \cup UNION { { data.items[j][k] : k \in DOMAIN data.items[j] } : j \in DOMAIN data.items }

\* C18: with every field confidence within 0..100, the average confidence
\* stored for the document is within 0..100 (0..1000 tenths); it is 100 only
\* if every field has confidence 100 and 0 only if no field has a
\* confidence above 0.
C18_ScoreBounds ==
    stats_pc = "done"
    => /\ 0 <= avg_conf /\ avg_conf <= 1000
       /\ avg_conf = 1000 => \A f \in Leaves(stats_data) : f.has /\ f.confidence = 100
       /\ avg_conf = 0 => \A f \in Leaves(stats_data) : ~(f.has /\ f.confidence > 0)

\* the latest provider call of caller d returned a completion
GotCompletion(d) == last_kind[d] \notin {"none", "transient", "permanent"}

\* C19: whatever completion a provider returned, cleaning and parsing it
\* gave the adapter a value (the empty result when nothing could be
\* recovered) and raised no exception.
C19_SanitizerNeverRaises ==
    \A d \in 1..files :
        GotCompletion(d) => ~parse_json_response(impl, last_content[d]).raised

\* C20: cleaning the cleaned completion again changes nothing.
C20_CleanIdempotent ==
    \A d \in 1..files :
        GotCompletion(d)
        => Clean(impl, Clean(impl, last_content[d])) = Clean(impl, last_content[d])

ObjectTokens == {"OBJ_FULL", "OBJ_PART", "OBJ_NULL"}

\* the JSON object a completion consists of: the object alone, in a json
\* code fence or in a plain code fence; "none" for any other completion
ObjectIn(c) ==
    IF Len(c) = 1 /\ c[1] \in ObjectTokens THEN c[1]
    ELSE IF \E tok \in ObjectTokens : c = JsonFence \o <<"\n", tok, "\n">> \o Fence
         THEN CHOOSE tok \in ObjectTokens : c = JsonFence \o <<"\n", tok, "\n">> \o Fence
    ELSE IF \E tok \in ObjectTokens : c = Fence \o <<"\n", tok, "\n">> \o Fence
         THEN CHOOSE tok \in ObjectTokens : c = Fence \o <<"\n", tok, "\n">> \o Fence
    ELSE "none"

\* C21: when the completion of the latest provider call is one JSON object,
\* alone or inside a json or plain code fence, cleaning and parsing it give
\* exactly that object, and the adapter returns it with the same keys and
\* values, none added and none removed.
C21_FencedObjectRoundTrip ==
    \A d \in 1..files :
        (GotCompletion(d) /\ ObjectIn(last_content[d]) # "none")
        => /\ parse_json_response(impl, last_content[d])
                = [raised |-> FALSE, value |-> ObjectIn(last_content[d])]
           /\ llm_pc[d] = "returned"
           /\ llm_result[d].data = PyValue(ObjectIn(last_content[d]), template_id).d

\* ------------------------------------------------------------------------
\* Provider calls on the event loop.  The adapters call the provider SDK
\* synchronously (self.mistral.chat.complete(...), no await): from the
\* moment a task enters the call until the call returns, the one event loop
\* of the process runs nothing else.  The tasks are the process_file tasks
\* of all the requests being served.
\* ------------------------------------------------------------------------

\* the call is a coroutine that is awaited: other tasks run meanwhile
LoopFreeAwaited == TRUE

\* no task is inside a synchronous provider call
LoopFree == \A e \in 1..files : llm_pc[e] # "inflight"

InitCalls ==
    /\ LLMInit
    /\ StoreIdle
    /\ CalcIdle
    /\ impl = "main"
    /\ template_id = "template_1"
    /\ files = MaxDocs
    /\ pdf = [d \in Docs |-> "text"]
    /\ file_pc = [d \in Docs |-> "direct"]
    /\ file_result = [d \in Docs |-> NoEntry]
    /\ req_pc = "none"
    /\ response = NoResponse

\* a task runs up to the provider call of its adapter
TaskStart(d) ==
    /\ LoopFree
    /\ ExtractCall(d)

\* the task enters the SDK call: the request is on its way
CallBegin(d) ==
    /\ d \in 1..files
    /\ llm_pc[d] = "call"
    /\ LoopFree
    /\ llm_pc' = [llm_pc EXCEPT ![d] = "inflight"]
    /\ UNCHANGED <<cfg_vars, provider, retry, call_log, sleep_log, seen, last_content, last_kind,
                   llm_result, req_vars, reports, store_vars, calc_vars>>

\* the SDK call returns or raises; the adapter goes on without yielding
\* until it sleeps, returns or raises, and a fallback to Groq enters the
\* call of the Groq adapter at once
CallEnd(d) ==
    /\ d \in 1..files
    /\ llm_pc[d] = "inflight"
    /\ \E o \in Outcomes :
         LET st == AdapterStep(impl, provider[d], retry[d], o, template_id, groq)
         IN  Move(d, IF st.pc = "call" THEN [st EXCEPT !.pc = "inflight"] ELSE st)
    /\ UNCHANGED <<cfg_vars, call_log, sleep_log, seen, last_content, last_kind,
                   req_vars, reports, store_vars, calc_vars>>

\* the sleep of a task is over and the loop runs the task again
TaskWake(d) ==
    /\ LoopFree
    /\ SleepDone(d)

NextCalls ==
    \/ \E d \in Docs : TaskStart(d)
    \/ \E d \in Docs : CallBegin(d)
    \/ \E d \in Docs : CallEnd(d)
    \/ \E d \in Docs : TaskWake(d)

SpecCalls == InitCalls /\ [][NextCalls]_vars

\* the calls to provider p that are in flight
InFlight(p) == {d \in 1..files : llm_pc[d] = "inflight" /\ provider[d] = p}

\* C22: whatever the number of tasks, at most one call to a provider is in
\* flight at a time, which is within any fixed cap of one or more (3 in the
\* claim).
C22_InFlightWithinCap ==
    \A p \in Providers : Cardinality(InFlight(p)) <= 1

\* a call to a provider is in flight while another task stands before its
\* own call to the same provider
C22_Witness ==
    \E d, e \in 1..files :
        /\ d # e
        /\ llm_pc[d] = "inflight"
        /\ llm_pc[e] = "call"
        /\ provider[d] = provider[e]

\* the waits of caller d before retries against provider p, in order
RECURSIVE WaitsOf(_, _)
WaitsOf(log, p) ==
    IF log = <<>> THEN <<>>
    ELSE (IF Head(log).p = p THEN <<Head(log).secs>> ELSE <<>>) \o WaitsOf(Tail(log), p)

\* C23: every attempt against a provider after the first was preceded by a
\* wait, each wait is twice the wait before it, and no wait is longer than
\* the longest wait the retry ceiling allows.
C23_BackoffDoubles ==
    \A d \in 1..files : \A p \in Providers :
        LET w == WaitsOf(sleep_log[d], p)
        IN  /\ Count(call_log[d], p) <= Len(w) + 1
            /\ \A k \in 1..(Len(w) - 1) : w[k + 1] = 2 * w[k]
            /\ \A k \in 1..Len(w) : w[k] <= 2 ^ max_retries

\* C24: once a request with a valid template id is over, the report was
\* rendered, and it has exactly one sheet for every sheet the template
\* declares, whatever the results are (no successful result, one, several;
\* sections empty or absent).
C24_EverySheetOnce ==
    (RequestOver /\ template_id \in TemplateIds(impl))
    => /\ req_pc = "responded"
       /\ \A sec \in Sections(template_id) :
             SheetsCreated(impl, template_id,
                           FinalResults([d \in 1..files |-> file_result[d]]), sec) = 1

\* ------------------------------------------------------------------------
\* Text extraction: extract_pdf_text (main.py, a.py) and
\* PDFExtractor.extract_text (pdf_extractor.py, with impl "svc")
\* ------------------------------------------------------------------------

\* the minimum number of characters below which the next method is tried
Threshold(i) == IF i = "main" THEN 150 ELSE IF i = "a" THEN 100 ELSE 50

\* the text lengths a method may yield: none, under every threshold, between
\* the thresholds, over every threshold
TextLens == {0, 40, 120, 400}

Yields == { Yield(TRUE, 0) } \cup { Yield(FALSE, n) : n \in TextLens }

TextOk(tried, len) == [status |-> "success", tried |-> tried, len |-> len]

TextFailed(tried) == [status |-> "failure", tried |-> tried, len |-> 0]

\* main.py: pdfplumber, then PyPDF2 when the text is under the threshold, its
\* text added to what pdfplumber found; success is True unless something
\* raised; there is no third method
extract_pdf_text_main(m) ==
    IF m.primary.raises THEN TextFailed(<<"primary">>)
    ELSE IF m.primary.len < Threshold("main")
    THEN (IF m.secondary.raises THEN TextFailed(<<"primary", "secondary">>)
          ELSE TextOk(<<"primary", "secondary">>, m.primary.len + m.secondary.len))
    ELSE TextOk(<<"primary">>, m.primary.len)

\* a.py: pdfplumber, PyPDF2, ocr_pdf, each replacing the text of the one
\* before; ocr_pdf returns the empty string when it fails; an exception of
\* the first two methods ends the function with success False
extract_pdf_text_a(m) ==
    IF m.primary.raises THEN TextFailed(<<"primary">>)
    ELSE IF m.primary.len >= Threshold("a") THEN TextOk(<<"primary">>, m.primary.len)
    ELSE IF m.secondary.raises THEN TextFailed(<<"primary", "secondary">>)
    ELSE IF m.secondary.len >= Threshold("a")
    THEN TextOk(<<"primary", "secondary">>, m.secondary.len)
    ELSE LET n == IF m.ocr.raises THEN 0 ELSE m.ocr.len
         IN  IF n > 0 THEN TextOk(<<"primary", "secondary", "ocr">>, n)
             ELSE TextFailed(<<"primary", "secondary", "ocr">>)

\* pdf_extractor.py: each method returns None when it raises; ValueError
\* when the second method is under the threshold too; there is no third
\* method
extract_text(m) ==
    IF ~m.primary.raises /\ m.primary.len >= Threshold("svc")
    THEN TextOk(<<"primary">>, m.primary.len)
    ELSE IF ~m.secondary.raises /\ m.secondary.len >= Threshold("svc")
    THEN TextOk(<<"primary", "secondary">>, m.secondary.len)
    ELSE TextFailed(<<"primary", "secondary">>)

InitText ==
    /\ LLMInit
    /\ ~mistral_key
    /\ ~groq_key
    /\ template_id \in TemplateIds(impl)
    /\ files = 1
    /\ pdf = [d \in Docs |-> "text"]
    /\ file_pc = [d \in Docs |-> "direct"]
    /\ file_result = [d \in Docs |-> NoEntry]
    /\ req_pc = "none"
    /\ response = NoResponse
    /\ StoreIdle
    /\ merge_data = <<>>
    /\ merge_input = <<>>
    /\ merge_returns = <<>>
    /\ merged = EmptyDict
    /\ merge_i = 1
    /\ merge_err = FALSE
    /\ stats_data = NoStatsData
    /\ total_fields = 0
    /\ total_conf = 0
    /\ avg_conf = 0
    /\ stats_pc = "none"
    /\ pdf_methods \in [primary : Yields, secondary : Yields, ocr : Yields]
    /\ text_out = NoText

\* one call of the text extraction
ExtractText ==
    /\ text_out.status = "none"
    /\ text_out' = IF impl = "main" THEN extract_pdf_text_main(pdf_methods)
                   ELSE IF impl = "a" THEN extract_pdf_text_a(pdf_methods)
                   ELSE extract_text(pdf_methods)
    /\ UNCHANGED <<cfg_vars, llm_vars, req_vars, reports, store_vars, merge_vars, stats_vars,
                   pdf_methods>>

NextText == ExtractText

SpecText == InitText /\ [][NextText]_vars

Tried(method) == \E k \in DOMAIN text_out.tried : text_out.tried[k] = method

\* what the method tried last yielded
LastYield ==
    LET y == pdf_methods[text_out.tried[Len(text_out.tried)]]
    IN  IF y.raises THEN 0 ELSE y.len

Under(y, i) == y.raises \/ y.len < Threshold(i)

\* C25: the primary method is tried first, the secondary only when the
\* primary yielded less than the threshold, image-based recognition only
\* when the secondary yielded less than the threshold too; failure is
\* reported only after all three were tried, and success never comes with
\* less text than the last method tried found.
C25_ThreeTierExtraction ==
    text_out.status # "none"
    => /\ text_out.tried[1] = "primary"
       /\ Tried("secondary") => Under(pdf_methods.primary, impl)
       /\ Tried("ocr") => (Tried("secondary") /\ Under(pdf_methods.secondary, impl))
       /\ text_out.status = "failure" => text_out.tried = <<"primary", "secondary", "ocr">>
       /\ text_out.status = "success" => text_out.len >= LastYield

\* ------------------------------------------------------------------------
\* The service with provider calls that always come back and sleeps that
\* always end: the SDK call returns or raises (the clients have timeouts),
\* and asyncio.sleep returns after its delay
\* ------------------------------------------------------------------------

SpecLive ==
    /\ Init
    /\ [][Next]_vars
    /\ \A d \in Docs : WF_vars(ProviderCall(d)) /\ WF_vars(SleepDone(d))

\* extract is running for caller d
Running(d) == llm_pc[d] \in {"call", "sleep"}

\* C26: a call of extract never makes more than max_retries + 1 calls to one
\* provider, nor more than 2 * (max_retries + 1) calls in all, and every call
\* of extract that is running ends, returning data or raising, whatever the
\* providers answer.
C26_ExtractTerminates ==
    /\ [](\A d \in 1..files :
            /\ \A p \in Providers : Count(call_log[d], p) <= max_retries + 1
            /\ Len(call_log[d]) <= 2 * (max_retries + 1))
    /\ \A d \in Docs : Running(d) ~> Finished(d)

\* extract ended after max_retries + 1 calls to each of the two providers
C26_Witness ==
    \E d \in 1..files :
        /\ Finished(d)
        /\ \A p \in Providers : Count(call_log[d], p) = max_retries + 1

\* provider p answered caller d with a completion that json.loads accepted
ReturnedJson(d, p) == seen[d][p] \cap {"parsed", "nondict"} # {}

\* C27 as stated: in main.py and a.py, once Mistral has returned a completion
\* that parses, Groq is not called for that document, and every returned
\* result carries in _llm_model the model of the provider called last, whose
\* completion was parsed into it.
C27_PrimaryResultIsFinal ==
    impl # "svc"
    => \A d \in 1..files :
          /\ ReturnedJson(d, "mistral") => Count(call_log[d], "groq") = 0
          /\ llm_pc[d] = "returned"
             => /\ "_llm_model" \in DOMAIN llm_result[d].data
                /\ llm_result[d].data["_llm_model"] = StrV(ModelName(LastCalled(d)))
                /\ last_kind[d] = "parsed"

\* C27, amended: in main.py and a.py, once Mistral has returned a completion
\* that parses to a JSON object, Groq is not called for that document, and
\* every returned result carries in _llm_model the model of the provider
\* called last, whose completion was parsed into it.
C27_PrimaryObjectIsFinal ==
    impl # "svc"
    => \A d \in 1..files :
          /\ "parsed" \in seen[d]["mistral"] => Count(call_log[d], "groq") = 0
          /\ llm_pc[d] = "returned"
             => /\ "_llm_model" \in DOMAIN llm_result[d].data
                /\ llm_result[d].data["_llm_model"] = StrV(ModelName(LastCalled(d)))
                /\ last_kind[d] = "parsed"

\* with Groq configured, Mistral answered its third call with an object
\* after two completions that did not parse, and extract returned it
C27_Witness ==
    \E d \in 1..files :
        /\ impl # "svc"
        /\ groq
        /\ llm_pc[d] = "returned"
        /\ call_log[d] = <<"mistral", "mistral", "mistral">>
        /\ llm_result[d].data["_llm_model"] = StrV(MistralModel)

\* every completion provider p has returned to caller d so far was not JSON
OnlyUnparseable(d, p) == seen[d][p] = {"unparseable"}

\* C28: in main.py and a.py, while a provider answers with text that is not
\* JSON the adapter calls it with the retry counter 0, 1, ..., max_retries
\* in order; it has called it exactly max_retries + 1 times when it gives
\* up, and then the parse error leaves the adapter (extract raises unless
\* Groq comes next); the retry counter never exceeds max_retries.
C28_UnparseableRetriedToCeiling ==
    impl # "svc"
    => \A d \in 1..files :
          /\ retry[d] <= max_retries
          /\ \A p \in Providers :
                /\ (OnlyUnparseable(d, p) /\ provider[d] = p /\ llm_pc[d] = "call")
                   => retry[d] = Count(call_log[d], p)
                /\ (OnlyUnparseable(d, p) /\ provider[d] = p /\ llm_pc[d] = "sleep")
                   => retry[d] = Count(call_log[d], p) - 1
                /\ (OnlyUnparseable(d, p) /\ AdapterDone(d, p))
                   => /\ Count(call_log[d], p) = max_retries + 1
                      /\ (p = "groq" \/ ~groq) => llm_pc[d] = "raised"

\* Mistral answered max_retries + 1 calls with text that is not JSON, and
\* extract, with no Groq client, raised
C28_Witness ==
    \E d \in 1..files :
        /\ impl # "svc"
        /\ ~groq
        /\ OnlyUnparseable(d, "mistral")
        /\ Count(call_log[d], "mistral") = max_retries + 1
        /\ retry[d] = max_retries
        /\ llm_pc[d] = "raised"

\* the records of session sid in a list of sessions
RecordsOf(sessions, sid) == {k \in DOMAIN sessions : sessions[k].session_id = sid}

\* the history file holds at most one record per session id
UniqueSessionIds ==
    (impl = "main" /\ history_file.kind = "sessions")
    => \A sid \in SessionIds : Cardinality(RecordsOf(history_file.sessions, sid)) <= 1

\* a step that writes the history file is the save of a writer w: what it
\* writes has one record of its session, and as many records as it had
\* loaded when the session was among them, one more when it was not
SaveKeepsOneRecord ==
    (impl = "main" /\ history_file' # history_file)
    => \E w \in Writers :
          /\ w_pc[w] = "loaded"
          /\ w_pc'[w] = "done"
          /\ LET before == w_loaded[w].loaded.sessions
                 after == history_file'.sessions
             IN  /\ Cardinality(RecordsOf(after, w_sid[w])) = 1
                 /\ Len(after) = Len(before)
                                 + (IF RecordsOf(before, w_sid[w]) = {} THEN 1 ELSE 0)

\* C29: from a history without a repeated session id, whatever appends are
\* made and however they interleave, the history never holds two records of
\* one session id: an append to a session that has a record adds none, an
\* append to a session without a record adds exactly one.
C29_OneRecordPerSession ==
    /\ []UniqueSessionIds
    /\ [][SaveKeepsOneRecord]_vars

\* two appends to the same session left one record with both messages
C29_Witness ==
    /\ impl = "main"
    /\ history_file.kind = "sessions"
    /\ Len(history_file.sessions) = 1
    /\ Len(history_file.sessions[1].messages) = 2

\* C30: _merge_fund_data leaves the data it is given as it was, and every
\* call on that data returns the same merged value.
C30_MergeLeavesInputUnchanged ==
    /\ merge_data = merge_input
    /\ \A j, k \in DOMAIN merge_returns : merge_returns[j] = merge_returns[k]

====
